---------------------------- MODULE Spec2Model ----------------------------
(***************************************************************************)
(* A model of the proteus Transformer (package protobuf): the type-mapping *)
(* table, the naming transforms, and the transformation of scanned types,  *)
(* fields, structs, enums and functions into protobuf entities.            *)
(*                                                                         *)
(* Identifiers that the code walks rune by rune (field names, enum value   *)
(* names, package paths) are sequences of one-character strings; names the *)
(* code only compares or concatenates are strings.                         *)
(***************************************************************************)
EXTENDS Naturals, Sequences, FiniteSets, TLC

VARIABLES
    mappings,   \* Transformer.mappings: the caller-supplied override table
    imports,    \* Package.Imports of the package handed to transformType,
                \* transformField and transformStruct
    pkgs,       \* the output packages of a run, by path
    names,      \* the nameSet shared by the function transformations of a run
    calls,      \* how many functions the run has transformed
    warned,     \* what the last operation sent to report.Warn, in order
    last        \* the last operation: its name, its arguments and its result

vars == <<mappings, imports, pkgs, names, calls, warned, last>>

-----------------------------------------------------------------------------
(* Bounds of the model. *)

MaxFields == 3
MaxPos == 2
MaxValues == 3
MaxArgs == 2
MaxCalls == 2
MaxDecls == 2
MaxLen == 4

-----------------------------------------------------------------------------
(* Values. *)

\* A nil *ProtoType.
NilPT == [nil |-> TRUE]

\* A nil protobuf Type (the nil interface value transformType returns).
NilType == [kind |-> "nil"]

\* A nil *Field, *Message or *RPC.
NilRef == [nil |-> TRUE]

ProtoType(name, basic, package, import, warn, decorators) ==
    [Name |-> name, Basic |-> basic, Package |-> package, Import |-> import,
     Warn |-> warn, Decorators |-> decorators]

\* protobuf.NewBasic, NewNamed, NewMap: the output types.
NewBasic(name) == [kind |-> "Basic", name |-> name]

NewNamed(package, name) ==
    [kind |-> "Named", package |-> package, name |-> name, generated |-> FALSE]

NewGeneratedNamed(package, name) ==
    [kind |-> "Named", package |-> package, name |-> name, generated |-> TRUE]

NewMap(key, value) == [kind |-> "Map", key |-> key, value |-> value]

\* ProtoType.Type
TypeOf(pt) ==
    IF pt.Basic THEN NewBasic(pt.Name) ELSE NewNamed(pt.Package, pt.Name)

\* scanner.NewBasic, NewNamed, NewMap with the repeated flag SetRepeated sets.
\* A Named type's path is a sequence of characters, its name a string.
ScanBasic(name, rep) == [kind |-> "Basic", name |-> name, repeated |-> rep]

ScanNamed(path, name, rep) ==
    [kind |-> "Named", path |-> path, name |-> name, repeated |-> rep]

ScanMap(key, value, rep) ==
    [kind |-> "Map", key |-> key, value |-> value, repeated |-> rep]

\* The string a sequence of characters spells.
RECURSIVE Join(_)
Join(s) == IF s = <<>> THEN "" ELSE Head(s) \o Join(Tail(s))

\* scanner.Named.String: "<path>.<name>".
NamedString(ty) == Join(ty.path) \o "." \o ty.name

-----------------------------------------------------------------------------
(* Characters and the naming transforms. *)

\* unicode.ToLower on the uppercase letters of the model's alphabet.
LowerOf ==
    [A |-> "a", B |-> "b", C |-> "c", D |-> "d", F |-> "f", I |-> "i",
     M |-> "m", Q |-> "q", R |-> "r", X |-> "x", Z |-> "z"]

\* unicode.ToUpper on the lowercase letters of the model's alphabet.
UpperOf ==
    [a |-> "A", b |-> "B", c |-> "C", d |-> "D", e |-> "E", f |-> "F",
     g |-> "G", i |-> "I", l |-> "L", m |-> "M", o |-> "O", q |-> "Q",
     r |-> "R", s |-> "S", t |-> "T", u |-> "U", x |-> "X", y |-> "Y",
     z |-> "Z"]

Digits == {"0", "1", "2", "3", "4", "5", "6", "7", "8", "9"}

\* Precomposed accented letters, written base + "'", and the letter and the
\* combining mark (category Mn, written "'") each decomposes to under NFD.
AccentBase == [x \in {"o'", "a'"} |-> IF x = "o'" THEN "o" ELSE "a"]

CombiningMark == "'"

IsUpper(r) == r \in DOMAIN LowerOf

ToLower(r) == IF r \in DOMAIN LowerOf THEN LowerOf[r] ELSE r

ToUpper(r) == IF r \in DOMAIN UpperOf THEN UpperOf[r] ELSE r

\* unicode.IsLetter
IsLetter(r) == r \in (DOMAIN LowerOf \cup DOMAIN UpperOf \cup DOMAIN AccentBase)

\* unicode.IsNumber
IsNumber(r) == r \in Digits

\* snakeLoop, mutated: the flag of the previous iteration is not read.
RECURSIVE snakeLoopEveryUpper(_, _, _)
snakeLoopEveryUpper(s, i, lastWasUpper) ==
    IF i > Len(s) THEN <<>>
    ELSE (IF IsUpper(s[i]) /\ i # 1 THEN <<"_">> ELSE <<>>)
         \o <<ToLower(s[i])>> \o snakeLoopEveryUpper(s, i + 1, IsUpper(s[i]))

\* The loop of toLowerSnakeCase from index i on, lastWasUpper being the flag
\* the previous iteration left.
RECURSIVE snakeLoop(_, _, _)
snakeLoop(s, i, lastWasUpper) ==
    IF i > Len(s) THEN <<>>
    ELSE (IF IsUpper(s[i]) /\ i # 1 /\ ~lastWasUpper THEN <<"_">> ELSE <<>>)
         \o <<ToLower(s[i])>> \o snakeLoop(s, i + 1, IsUpper(s[i]))

toLowerSnakeCase(s) == snakeLoop(s, 1, FALSE)

\* strings.ToUpper
RECURSIVE StringsToUpper(_)
StringsToUpper(s) ==
    IF s = <<>> THEN <<>> ELSE <<ToUpper(Head(s))>> \o StringsToUpper(Tail(s))

toUpperSnakeCase(s) == StringsToUpper(toLowerSnakeCase(s))

\* MapPath, mutated: '/' becomes '.', and '.' goes with the rest.
RECURSIVE MapPathDotsDropped(_)
MapPathDotsDropped(s) ==
    IF s = <<>> THEN <<>>
    ELSE (IF Head(s) = "/" THEN <<".">>
          ELSE IF IsLetter(Head(s)) \/ IsNumber(Head(s)) THEN <<Head(s)>>
          ELSE <<>>) \o MapPathDotsDropped(Tail(s))

\* The strings.Map of toProtobufPkg followed by the removal of the spaces it
\* wrote: '/' and '.' become '.', letters and numbers stay, the rest goes.
RECURSIVE MapPath(_)
MapPath(s) ==
    IF s = <<>> THEN <<>>
    ELSE (IF Head(s) \in {"/", "."} THEN <<".">>
          ELSE IF IsLetter(Head(s)) \/ IsNumber(Head(s)) THEN <<Head(s)>>
          ELSE <<>>) \o MapPath(Tail(s))

\* norm.NFD: an accented letter becomes its base letter and a combining mark.
RECURSIVE NFD(_)
NFD(s) ==
    IF s = <<>> THEN <<>>
    ELSE (IF Head(s) \in DOMAIN AccentBase
          THEN <<AccentBase[Head(s)], CombiningMark>>
          ELSE <<Head(s)>>) \o NFD(Tail(s))

\* runes.Remove(runes.In(unicode.Mn))
RECURSIVE RemoveMn(_)
RemoveMn(s) ==
    IF s = <<>> THEN <<>>
    ELSE (IF Head(s) = CombiningMark THEN <<>> ELSE <<Head(s)>>) \o RemoveMn(Tail(s))

\* norm.NFC: a base letter followed by a combining mark is composed again.
RECURSIVE NFC(_)
NFC(s) ==
    IF Len(s) < 2 THEN s
    ELSE IF s[2] = CombiningMark /\ \E x \in DOMAIN AccentBase : AccentBase[x] = s[1]
         THEN <<CHOOSE x \in DOMAIN AccentBase : AccentBase[x] = s[1]>>
              \o NFC(Tail(Tail(s)))
         ELSE <<Head(s)>> \o NFC(Tail(s))

toProtobufPkg(path) == NFC(RemoveMn(NFD(MapPath(path))))

-----------------------------------------------------------------------------
(* The type-mapping tables. *)

\* The decorator of the "time.Time" mapping: it sets two field options.
StdTimeDecorator ==
    << [key |-> "(gogoproto.stdtime)", value |-> "true"],
       [key |-> "(gogoproto.nullable)", value |-> "false"] >>

\* The decorator of the "time.Duration" mapping.
StdDurationDecorator ==
    << [key |-> "(gogoproto.stdduration)", value |-> "true"],
       [key |-> "(gogoproto.nullable)", value |-> "false"] >>

\* An option bag without entries.
EmptyOptions == [k \in {} |-> ""]

\* f.Options[key] = value
SetOption(options, key, value) ==
    [k \in DOMAIN options \cup {key} |-> IF k = key THEN value ELSE options[k]]

\* Decorator.Run: the options the decorator sets, in the order it sets them.
RECURSIVE DecoratorRun(_, _)
DecoratorRun(d, options) ==
    IF d = <<>> THEN options
    ELSE DecoratorRun(Tail(d), SetOption(options, Head(d).key, Head(d).value))

\* Decorators.Run: every decorator, in registration order.
RECURSIVE DecoratorsRun(_, _)
DecoratorsRun(ds, options) ==
    IF ds = <<>> THEN options
    ELSE DecoratorsRun(Tail(ds), DecoratorRun(Head(ds), options))

\* The built-in table; NilPT for a name it has no entry for.
DefaultMappings(name) ==
    CASE name = "float64" -> ProtoType("double", TRUE, "", "", "", <<>>)
      [] name = "float32" -> ProtoType("float", TRUE, "", "", "", <<>>)
      [] name = "int32" -> ProtoType("int32", TRUE, "", "", "", <<>>)
      [] name = "int64" -> ProtoType("int64", TRUE, "", "", "", <<>>)
      [] name = "uint32" -> ProtoType("uint32", TRUE, "", "", "", <<>>)
      [] name = "uint64" -> ProtoType("uint64", TRUE, "", "", "", <<>>)
      [] name = "bool" -> ProtoType("bool", TRUE, "", "", "", <<>>)
      [] name = "string" -> ProtoType("string", TRUE, "", "", "", <<>>)
      [] name = "uint8" ->
            ProtoType("uint32", TRUE, "", "", "type %s was upgraded to uint32", <<>>)
      [] name = "int8" ->
            ProtoType("int32", TRUE, "", "", "type %s was upgraded to int32", <<>>)
      [] name = "byte" ->
            ProtoType("uint32", TRUE, "", "", "type %s was upgraded to uint32", <<>>)
      [] name = "uint16" ->
            ProtoType("uint32", TRUE, "", "", "type %s was upgraded to uint32", <<>>)
      [] name = "int16" ->
            ProtoType("int32", TRUE, "", "", "type %s was upgraded to int32", <<>>)
      [] name = "int" ->
            ProtoType("int64", TRUE, "", "", "type %s was upgraded to int64", <<>>)
      [] name = "uint" ->
            ProtoType("uint64", TRUE, "", "", "type %s was upgraded to uint64", <<>>)
      [] name = "uintptr" -> ProtoType("uint64", TRUE, "", "", "", <<>>)
      [] name = "rune" -> ProtoType("int32", TRUE, "", "", "", <<>>)
      [] name = "time.Time" ->
            ProtoType("Timestamp", FALSE, "google.protobuf",
                      "google/protobuf/timestamp.proto", "", <<StdTimeDecorator>>)
      [] name = "time.Duration" ->
            ProtoType("int64", TRUE, "google.protobuf",
                      "google/protobuf/duration.proto", "", <<StdDurationDecorator>>)
      [] OTHER -> NilPT

\* A Go map lookup m[name]: the zero value (nil) for a missing key and for
\* every key of a nil map.
Lookup(m, name) ==
    IF (~m.isNil) /\ name \in DOMAIN m.entries THEN m.entries[name] ELSE NilPT

\* make(TypeMappings)
EmptyMappings == [isNil |-> FALSE, entries |-> [k \in {} |-> NilPT]]

\* A nil TypeMappings.
NilMappings == [isNil |-> TRUE, entries |-> [k \in {} |-> NilPT]]

\* The entries callers override with: types the default table lacks
\* ("url.URL", "complex64") and a type it has ("time.Time").
OverrideEntry(name) ==
    CASE name = "url.URL" -> ProtoType("string", TRUE, "", "", "", <<>>)
      [] name = "time.Time" ->
            ProtoType("MyTime", FALSE, "my.types", "my/types.proto", "", <<>>)
      [] name = "complex64" -> ProtoType("Complex", FALSE, "my.types", "", "", <<>>)

OverrideKeys == {"url.URL", "time.Time", "complex64"}

\* The tables a caller passes to SetMappings: nil, or overrides of any of keys.
Tables(keys) ==
    {NilMappings} \cup
    {[isNil |-> FALSE, entries |-> [k \in S |-> OverrideEntry(k)]] : S \in SUBSET keys}

CallerMappings == Tables(OverrideKeys)

\* The Go type names looked up.
GoNames ==
    {"foo.Bar", "url.URL", "time.Duration", "time.Time", "int32", "int",
     "byte", "string", "complex64", "uint8", "float64", "rune"}

\* Transformer.findMapping, mutated: the default table is consulted first.
findMappingDefaultFirst(m, name) ==
    IF DefaultMappings(name) # NilPT THEN DefaultMappings(name) ELSE Lookup(m, name)

\* Transformer.findMapping: the override table, then the default table.
findMapping(m, name) ==
    IF Lookup(m, name) = NilPT THEN DefaultMappings(name) ELSE Lookup(m, name)

\* NewTransformer
NewTransformer == EmptyMappings

\* SetMappings, mutated: a nil table is set like any other.
SetMappingsResultAny(old, m) == m

\* Transformer.SetMappings: a nil table is ignored.
SetMappingsResult(old, m) == IF m.isNil THEN old ELSE m

-----------------------------------------------------------------------------
(* Operations on the mapping table. *)

SetMappings(m) ==
    /\ mappings' = SetMappingsResult(mappings, m)
    /\ warned' = <<>>
    /\ last' = [op |-> "SetMappings", arg |-> m]
    /\ UNCHANGED <<imports, pkgs, names, calls>>

FindMapping(name) ==
    /\ warned' = <<>>
    /\ last' = [op |-> "findMapping", name |-> name,
                result |-> findMapping(mappings, name)]
    /\ UNCHANGED <<mappings, imports, pkgs, names, calls>>

NoOp == [op |-> "new"]

PathBaz == <<"b", "a", "z">>
PathQux == <<"q", "u", "x">>

\* The paths of the packages of a run.
PkgPaths == {PathBaz, PathQux}

\* The Package value Transform starts from.
NewPackage(path) ==
    [Name |-> Join(toProtobufPkg(path)), Path |-> path, Imports |-> <<>>,
     Messages |-> <<>>, RPCs |-> <<>>]

Init ==
    /\ mappings = NewTransformer
    /\ imports = <<>>
    /\ pkgs = [p \in PkgPaths |-> NewPackage(p)]
    /\ names = {}
    /\ calls = 0
    /\ warned = <<>>
    /\ last = NoOp

NextMap ==
    \/ \E m \in CallerMappings : SetMappings(m)
    \/ \E name \in GoNames : FindMapping(name)

SpecMap == Init /\ [][NextMap]_vars

-----------------------------------------------------------------------------
(* Types, fields and structs. *)

Range(s) == {s[i] : i \in DOMAIN s}

\* Package.Import: the import a mapping requires, unless it is already there.
Import(imps, pt) ==
    IF pt.Import # "" /\ pt.Import \notin Range(imps)
    THEN Append(imps, pt.Import) ELSE imps

\* Package.ImportFromPath: the generated proto file of another package.
GeneratedProto(path) ==
    IF path = <<>> THEN "generated.proto" ELSE Join(path) \o "/generated.proto"

ImportFromPath(imps, path) ==
    IF GeneratedProto(path) \notin Range(imps)
    THEN Append(imps, GeneratedProto(path)) ELSE imps

\* The report.Warn call of transformType.
WarnBasic(name) ==
    [fmt |-> "basic type %q is not defined in the mappings, ignoring",
     args |-> <<name>>]

\* The report.Warn call of transformStruct.
WarnField(fieldName, structName) ==
    [fmt |-> "field %q of struct %q has an invalid type, ignoring field but reserving its position",
     args |-> <<Join(fieldName), structName>>]

\* transformType, mutated: a mapped Named type does not register its import.
RECURSIVE transformTypeNoImport(_, _, _)
transformTypeNoImport(m, imps, ty) ==
    CASE ty.kind = "Named" ->
            LET protoType == findMapping(m, NamedString(ty)) IN
            IF protoType # NilPT
            THEN [type |-> TypeOf(protoType), imports |-> imps, warned |-> <<>>]
            ELSE [type |-> NewNamed(Join(toProtobufPkg(ty.path)), ty.name),
                  imports |-> ImportFromPath(imps, ty.path), warned |-> <<>>]
      [] ty.kind = "Basic" ->
            LET protoType == findMapping(m, ty.name) IN
            IF protoType # NilPT
            THEN [type |-> TypeOf(protoType), imports |-> Import(imps, protoType),
                  warned |-> <<>>]
            ELSE [type |-> NilType, imports |-> imps,
                  warned |-> <<WarnBasic(ty.name)>>]
      [] ty.kind = "Map" ->
            LET k == transformTypeNoImport(m, imps, ty.key)
                v == transformTypeNoImport(m, k.imports, ty.value)
            IN [type |-> NewMap(k.type, v.type), imports |-> v.imports,
                warned |-> k.warned \o v.warned]
      [] OTHER -> [type |-> NilType, imports |-> imps, warned |-> <<>>]

\* Transformer.transformType on package imports imps: the protobuf type (or
\* NilType), the imports afterwards and the warnings sent.  The key of a Map
\* is transformed before its value.
RECURSIVE transformType(_, _, _)
transformType(m, imps, ty) ==
    CASE ty.kind = "Named" ->
            LET protoType == findMapping(m, NamedString(ty)) IN
            IF protoType # NilPT
            THEN [type |-> TypeOf(protoType), imports |-> Import(imps, protoType),
                  warned |-> <<>>]
            ELSE [type |-> NewNamed(Join(toProtobufPkg(ty.path)), ty.name),
                  imports |-> ImportFromPath(imps, ty.path), warned |-> <<>>]
      [] ty.kind = "Basic" ->
            LET protoType == findMapping(m, ty.name) IN
            IF protoType # NilPT
            THEN [type |-> TypeOf(protoType), imports |-> Import(imps, protoType),
                  warned |-> <<>>]
            ELSE [type |-> NilType, imports |-> imps,
                  warned |-> <<WarnBasic(ty.name)>>]
      [] ty.kind = "Map" ->
            LET k == transformType(m, imps, ty.key)
                v == transformType(m, k.imports, ty.value)
            IN [type |-> NewMap(k.type, v.type), imports |-> v.imports,
                warned |-> k.warned \o v.warned]
      [] OTHER -> [type |-> NilType, imports |-> imps, warned |-> <<>>]

\* isByteSlice, mutated: the repeated flag is not looked at.
isByteSliceAnyByte(ty) == ty.kind = "Basic" /\ ty.name = "byte"

\* isByteSlice
isByteSlice(ty) == ty.kind = "Basic" /\ ty.repeated /\ ty.name = "byte"

\* transformField, mutated: a nil type is not checked for, and the field is
\* returned with it.
transformFieldNoNilCheck(m, imps, field, pos) ==
    IF isByteSlice(field.Type)
    THEN [field |-> [Name |-> toLowerSnakeCase(field.Name), Pos |-> pos,
                     Type |-> NewBasic("bytes"), Repeated |-> FALSE],
          imports |-> imps, warned |-> <<>>]
    ELSE LET t == transformType(m, imps, field.Type) IN
         [field |-> [Name |-> toLowerSnakeCase(field.Name), Pos |-> pos,
                     Type |-> t.type, Repeated |-> field.Type.repeated],
          imports |-> t.imports, warned |-> t.warned]

\* transformField, mutated: the field is never marked repeated.
transformFieldNotRepeated(m, imps, field, pos) ==
    IF isByteSlice(field.Type)
    THEN [field |-> [Name |-> toLowerSnakeCase(field.Name), Pos |-> pos,
                     Type |-> NewBasic("bytes"), Repeated |-> FALSE],
          imports |-> imps, warned |-> <<>>]
    ELSE LET t == transformType(m, imps, field.Type) IN
         IF t.type = NilType
         THEN [field |-> NilRef, imports |-> t.imports, warned |-> t.warned]
         ELSE [field |-> [Name |-> toLowerSnakeCase(field.Name), Pos |-> pos,
                          Type |-> t.type, Repeated |-> FALSE],
               imports |-> t.imports, warned |-> t.warned]

\* Transformer.transformField: the field (or NilRef), the imports afterwards
\* and the warnings sent.
transformField(m, imps, field, pos) ==
    IF isByteSlice(field.Type)
    THEN [field |-> [Name |-> toLowerSnakeCase(field.Name), Pos |-> pos,
                     Type |-> NewBasic("bytes"), Repeated |-> FALSE],
          imports |-> imps, warned |-> <<>>]
    ELSE LET t == transformType(m, imps, field.Type) IN
         IF t.type = NilType
         THEN [field |-> NilRef, imports |-> t.imports, warned |-> t.warned]
         ELSE [field |-> [Name |-> toLowerSnakeCase(field.Name), Pos |-> pos,
                          Type |-> t.type, Repeated |-> field.Type.repeated],
               imports |-> t.imports, warned |-> t.warned]

\* Message.Reserve
Reserve(msg, pos) == [msg EXCEPT !.Reserved = Append(@, pos)]

\* The loop of transformStruct from the field of index i (1-based here, so
\* the position is i) on.
RECURSIVE structLoop(_, _, _, _, _, _)
structLoop(m, imps, s, i, msg, warns) ==
    IF i > Len(s.Fields) THEN [msg |-> msg, imports |-> imps, warned |-> warns]
    ELSE LET f == transformField(m, imps, s.Fields[i], i) IN
         IF f.field = NilRef
         THEN structLoop(m, f.imports, s, i + 1, Reserve(msg, i),
                         warns \o f.warned
                               \o <<WarnField(s.Fields[i].Name, s.Name)>>)
         ELSE structLoop(m, f.imports, s, i + 1,
                         [msg EXCEPT !.Fields = Append(@, f.field)],
                         warns \o f.warned)

\* transformStruct, mutated: a field takes the next free position, so the
\* fields after a dropped one are renumbered.
RECURSIVE structLoopRenumber(_, _, _, _, _, _)
structLoopRenumber(m, imps, s, i, msg, warns) ==
    IF i > Len(s.Fields) THEN [msg |-> msg, imports |-> imps, warned |-> warns]
    ELSE LET f == transformField(m, imps, s.Fields[i], Len(msg.Fields) + 1) IN
         IF f.field = NilRef
         THEN structLoopRenumber(m, f.imports, s, i + 1, Reserve(msg, i),
                                 warns \o f.warned
                                       \o <<WarnField(s.Fields[i].Name, s.Name)>>)
         ELSE structLoopRenumber(m, f.imports, s, i + 1,
                                 [msg EXCEPT !.Fields = Append(@, f.field)],
                                 warns \o f.warned)

transformStructRenumber(m, imps, s) ==
    structLoopRenumber(m, imps, s, 1,
                       [Name |-> s.Name, Fields |-> <<>>, Reserved |-> <<>>], <<>>)

\* Transformer.transformStruct
transformStruct(m, imps, s) ==
    structLoop(m, imps, s, 1, [Name |-> s.Name, Fields |-> <<>>, Reserved |-> <<>>], <<>>)

-----------------------------------------------------------------------------
(* Enums. *)

\* EnumValues.Add
AddValue(values, name, value) == Append(values, [Name |-> name, Value |-> value])

\* The loop of transformEnum from the value of index i (1-based here, so
\* the ordinal is i - 1) on.
RECURSIVE enumLoop(_, _, _)
enumLoop(e, i, values) ==
    IF i > Len(e.Values) THEN values
    ELSE enumLoop(e, i + 1, AddValue(values, toUpperSnakeCase(e.Values[i]), i - 1))

\* transformEnum, mutated: the ordinals start at one.
RECURSIVE enumLoopOneBased(_, _, _)
enumLoopOneBased(e, i, values) ==
    IF i > Len(e.Values) THEN values
    ELSE enumLoopOneBased(e, i + 1, AddValue(values, toUpperSnakeCase(e.Values[i]), i))

transformEnumOneBased(e) == [Name |-> e.Name, Values |-> enumLoopOneBased(e, 1, <<>>)]

\* Transformer.transformEnum
transformEnum(e) == [Name |-> e.Name, Values |-> enumLoop(e, 1, <<>>)]

-----------------------------------------------------------------------------
(* The scanned types, fields and structs the operations are applied to. *)

PathTime == <<"t", "i", "m", "e">>
PathFoo == <<"f", "o", "o">>

ElemTypes ==
    {ScanBasic(n, r) : n \in {"string", "byte", "complex64"}, r \in BOOLEAN}
    \cup {ScanNamed(PathTime, "Time", r) : r \in BOOLEAN}
    \cup {ScanNamed(PathFoo, "Bar", r) : r \in BOOLEAN}
    \cup {ScanNamed(PathFoo, "byte", TRUE)}

MapTypes ==
    {ScanMap(k, v, FALSE) :
        k \in {ScanBasic("string", FALSE), ScanBasic("complex64", FALSE)},
        v \in {ScanBasic("complex64", FALSE), ScanNamed(PathTime, "Time", FALSE),
               ScanNamed(PathFoo, "Bar", FALSE)}}

ScanTypes == ElemTypes \cup MapTypes

FieldNames == {<<"B", "a", "z", "B", "a", "r">>, <<"I", "D">>}

\* The fields structs are built from.
StructFields ==
    { [Name |-> <<"F", "o", "o">>, Type |-> ScanBasic("string", FALSE)],
      [Name |-> <<"B", "a", "d">>, Type |-> ScanBasic("complex64", FALSE)],
      [Name |-> <<"B", "a", "r">>, Type |-> ScanNamed(PathFoo, "Bar", TRUE)],
      [Name |-> <<"M">>, Type |-> ScanMap(ScanBasic("string", FALSE),
                                           ScanBasic("complex64", FALSE), FALSE)] }

SeqsUpTo(S, n) == UNION {[1..k -> S] : k \in 0..n}

\* The value names enums are built from; an enum's values are distinct.
ValueNames ==
    { <<"F", "o", "o">>, <<"B", "a", "r">>, <<"B", "a", "r", "B", "a", "z">>,
      <<"f", "o", "o", "B", "A", "R">>, <<"I", "D">>,
      <<"f", "o", "o", "1", "b", "a", "r", "B", "a", "z">> }

Enums ==
    {[Name |-> "Foo", Values |-> vs] :
        vs \in {v \in SeqsUpTo(ValueNames, MaxValues) :
                   \A i, j \in DOMAIN v : i # j => v[i] # v[j]}}

Structs == {[Name |-> "Foo", Fields |-> fs] : fs \in SeqsUpTo(StructFields, MaxFields)}

-----------------------------------------------------------------------------
(* Operations on types, fields and structs. *)

TransformType(ty) ==
    \E r \in {transformType(mappings, imports, ty)} :
    /\ imports' = r.imports
    /\ warned' = r.warned
    /\ last' = [op |-> "transformType", typ |-> ty, result |-> r.type]
    /\ UNCHANGED <<mappings, pkgs, names, calls>>

TransformField(field, pos) ==
    \E r \in {transformField(mappings, imports, field, pos)} :
    /\ imports' = r.imports
    /\ warned' = r.warned
    /\ last' = [op |-> "transformField", field |-> field, pos |-> pos,
                result |-> r.field]
    /\ UNCHANGED <<mappings, pkgs, names, calls>>

TransformStruct(s) ==
    \E r \in {transformStruct(mappings, imports, s)} :
    /\ imports' = r.imports
    /\ warned' = r.warned
    /\ last' = [op |-> "transformStruct", struct |-> s, result |-> r.msg]
    /\ UNCHANGED <<mappings, pkgs, names, calls>>

NextType ==
    \/ \E m \in Tables({"time.Time", "complex64"}) : SetMappings(m)
    \/ \E ty \in ScanTypes : TransformType(ty)

SpecType == Init /\ [][NextType]_vars

NextField ==
    \/ \E m \in Tables({"time.Time", "complex64"}) : SetMappings(m)
    \/ \E ty \in ScanTypes, n \in FieldNames, pos \in 1..MaxPos :
          TransformField([Name |-> n, Type |-> ty], pos)

SpecField == Init /\ [][NextField]_vars

NextStruct ==
    \/ \E m \in Tables({"complex64"}) : SetMappings(m)
    \/ \E s \in Structs : TransformStruct(s)

SpecStruct == Init /\ [][NextStruct]_vars

TransformEnum(e) ==
    /\ warned' = <<>>
    /\ last' = [op |-> "transformEnum", enum |-> e, result |-> transformEnum(e)]
    /\ UNCHANGED <<mappings, imports, pkgs, names, calls>>

NextEnum == \E e \in Enums : TransformEnum(e)

SpecEnum == Init /\ [][NextEnum]_vars

\* The integer types narrower than 32 bits, and wider ones beside them.
IntTypes ==
    {ScanBasic(n, r) :
        n \in {"int8", "uint8", "int16", "uint16", "byte", "int32", "int"},
        r \in BOOLEAN}

\* Fields of integer types are transformed, with and without overrides of
\* other types.
NextInt ==
    \/ \E m \in Tables({"complex64"}) : SetMappings(m)
    \/ \E ty \in IntTypes, n \in FieldNames, pos \in 1..MaxPos :
          TransformField([Name |-> n, Type |-> ty], pos)

SpecInt == Init /\ [][NextInt]_vars

\* The characters names are written in: lowercase and uppercase letters and
\* a digit.
NameAlphabet == {"a", "b", "A", "B", "1"}

\* The names the naming transforms are applied to.
NameInputs ==
    SeqsUpTo(NameAlphabet, MaxLen)
    \cup { <<"f", "o", "o", "B", "A", "R">>, <<"F", "B", "a", "r">> }

ToLowerSnakeCase(s) ==
    /\ calls = 0
    /\ calls' = calls + 1
    /\ warned' = <<>>
    /\ last' = [op |-> "toLowerSnakeCase", s |-> s, result |-> toLowerSnakeCase(s)]
    /\ UNCHANGED <<mappings, imports, pkgs, names>>

NextSnake == \E s \in NameInputs : ToLowerSnakeCase(s)

SpecSnake == Init /\ [][NextSnake]_vars

\* The characters package paths are written in: the separators, a plain and
\* an accented letter, a digit and a symbol that is neither.
PathAlphabet == {"/", ".", "a", "o'", "1", "-"}

PathInputs == SeqsUpTo(PathAlphabet, MaxLen)

ToProtobufPkg(path) ==
    /\ calls = 0
    /\ calls' = calls + 1
    /\ warned' = <<>>
    /\ last' = [op |-> "toProtobufPkg", path |-> path, result |-> toProtobufPkg(path)]
    /\ UNCHANGED <<mappings, imports, pkgs, names>>

NextPkg == \E path \in PathInputs : ToProtobufPkg(path)

SpecPkg == Init /\ [][NextPkg]_vars

-----------------------------------------------------------------------------
(* Functions: one function becomes one RPC and the wrapper messages of its   *)
(* arguments and of its results, unless its receiver cannot be named or one  *)
(* of the wrapper names is taken already.                                    *)

NoReceiver == [kind |-> "none"]

\* The sentinel type of a trailing error result: scanner.NewNamed("", "error").
ErrorType == ScanNamed(<<>>, "error", FALSE)

IsErrorType(ty) == ty.kind = "Named" /\ ty.path = <<>> /\ ty.name = "error"

\* A function without a receiver, or with one of a Named type, has a name.
HasNameableReceiver(fn) == fn.Receiver.kind \in {"none", "Named"}

\* "<ReceiverTypeName>_<FunctionName>" for a method.
RPCName(fn) ==
    IF fn.Receiver.kind = "Named"
    THEN fn.Receiver.name \o "_" \o fn.Name ELSE fn.Name

RequestName(fn) == RPCName(fn) \o "Request"

ResponseName(fn) == RPCName(fn) \o "Response"

\* The results, mutated: a trailing error is kept.
removeLastErrorKeep(out) == out

\* The results without a trailing error.
removeLastError(out) ==
    IF out # <<>> /\ IsErrorType(out[Len(out)])
    THEN SubSeq(out, 1, Len(out) - 1) ELSE out

DigitChars == <<"1", "2", "3", "4", "5", "6", "7", "8", "9">>

\* "arg1", "arg2", ... and "result1", "result2", ...
ArgName(prefix, i) == Append(prefix, DigitChars[i])

\* The fields of the wrapper message of types: field i is named prefix
\* followed by i.
RECURSIVE wrapperFields(_, _, _)
wrapperFields(types, prefix, n) ==
    IF n = 0 THEN <<>>
    ELSE Append(wrapperFields(types, prefix, n - 1),
                [Name |-> ArgName(prefix, n), Type |-> types[n]])

\* The wrapper message of types: its fields are transformed as the fields
\* of a struct are, field i at position i.
createMessageFromTypes(m, imps, name, types, prefix) ==
    transformStruct(m, imps,
        [Name |-> name, Fields |-> wrapperFields(types, prefix, Len(types))])

\* UsesTypeDirectly, mutated: a lone Named type is used as it is, repeated
\* or not.
UsesTypeDirectlyRepeated(types) ==
    Len(types) = 1 /\ types[1].kind = "Named"

\* A lone Named type that is not repeated is used as it is.
UsesTypeDirectly(types) ==
    Len(types) = 1 /\ types[1].kind = "Named" /\ ~types[1].repeated

\* One side of an RPC: its type, the package afterwards, the wrapper name
\* to register and the warnings sent.
transformTypeList(m, pkg, types, msgName, prefix) ==
    IF UsesTypeDirectly(types)
    THEN LET t == transformType(m, pkg.Imports, types[1]) IN
         [type |-> t.type, pkg |-> [pkg EXCEPT !.Imports = t.imports],
          registered |-> {}, warned |-> t.warned]
    ELSE LET w == createMessageFromTypes(m, pkg.Imports, msgName, types, prefix) IN
         [type |-> NewGeneratedNamed(Join(toProtobufPkg(pkg.Path)), msgName),
          pkg |-> [pkg EXCEPT !.Imports = w.imports,
                              !.Messages = Append(@, w.msg)],
          registered |-> {msgName}, warned |-> w.warned]

ArgPrefix == <<"a", "r", "g">>

ResultPrefix == <<"r", "e", "s", "u", "l", "t">>

\* The function is skipped: nothing is produced and nothing is changed.
skipFunc(pkg, nameset) ==
    [rpc |-> NilRef, pkg |-> pkg, names |-> nameset, warned |-> <<>>]

\* Either wrapper name is registered already.
NameTaken(fn, nameset) ==
    RequestName(fn) \in nameset \/ ResponseName(fn) \in nameset

\* The RPC of the two sides.
NewRPC(fn, in, out) ==
    [Name |-> RPCName(fn), Input |-> in.type, Output |-> out.type]

\* commitFunc, mutated: the wrapper names are not registered.
commitFuncNoRegister(fn, nameset, in, out) ==
    [rpc |-> NewRPC(fn, in, out),
     pkg |-> [out.pkg EXCEPT !.RPCs = Append(@, NewRPC(fn, in, out))],
     names |-> nameset,
     warned |-> in.warned \o out.warned]

\* The wrapper names are registered and the RPC is added to the package,
\* after the wrappers.
commitFunc(fn, nameset, in, out) ==
    [rpc |-> NewRPC(fn, in, out),
     pkg |-> [out.pkg EXCEPT !.RPCs = Append(@, NewRPC(fn, in, out))],
     names |-> nameset \cup in.registered \cup out.registered,
     warned |-> in.warned \o out.warned]

\* transformOutput, mutated: the response name is checked only now, when
\* the request wrapper is in the package and its name in the nameSet.
transformOutputPartial(m, fn, nameset, in) ==
    IF ResponseName(fn) \in nameset
    THEN [rpc |-> NilRef, pkg |-> in.pkg,
          names |-> nameset \cup in.registered, warned |-> in.warned]
    ELSE commitFunc(fn, nameset, in,
             transformTypeList(m, in.pkg, removeLastError(fn.Output),
                               ResponseName(fn), ResultPrefix))

\* The results, after the arguments: a trailing error is not a result.
transformOutput(m, fn, nameset, in) ==
    commitFunc(fn, nameset, in,
        transformTypeList(m, in.pkg, removeLastError(fn.Output),
                          ResponseName(fn), ResultPrefix))

\* transformFunc, mutated: only the request name is checked before the
\* arguments are transformed.
transformFuncPartial(m, pkg, fn, nameset) ==
    IF ~HasNameableReceiver(fn) \/ RequestName(fn) \in nameset
    THEN skipFunc(pkg, nameset)
    ELSE transformOutputPartial(m, fn, nameset,
             transformTypeList(m, pkg, fn.Input, RequestName(fn), ArgPrefix))

\* Transformer.transformFunc: the RPC (or NilRef), the package and the
\* nameSet afterwards, and the warnings sent.
transformFunc(m, pkg, fn, nameset) ==
    IF ~HasNameableReceiver(fn) \/ NameTaken(fn, nameset)
    THEN skipFunc(pkg, nameset)
    ELSE transformOutput(m, fn, nameset,
             transformTypeList(m, pkg, fn.Input, RequestName(fn), ArgPrefix))

\* The types of the arguments and results of the functions transformed.
ArgTypes ==
    { ScanNamed(PathFoo, "Bar", FALSE), ScanNamed(PathFoo, "Bar", TRUE),
      ScanBasic("string", FALSE), ScanBasic("complex64", FALSE) }

Receivers ==
    {NoReceiver, ScanNamed(PathFoo, "Fooer", FALSE), ScanBasic("int", FALSE)}

\* Result lists: with and without a trailing error.
Outputs ==
    SeqsUpTo(ArgTypes, MaxArgs)
    \cup {Append(l, ErrorType) : l \in SeqsUpTo(ArgTypes, MaxArgs)}

Funcs ==
    {[Name |-> "DoFoo", Receiver |-> r, Input |-> i, Output |-> o] :
        r \in Receivers, i \in SeqsUpTo(ArgTypes, MaxArgs), o \in Outputs}

\* The argument and result lists of the functions of a run of several calls.
RunShapes ==
    { [Input |-> <<>>, Output |-> <<>>],
      [Input |-> <<ScanNamed(PathFoo, "Bar", FALSE)>>,
       Output |-> <<ScanNamed(PathFoo, "Bar", FALSE), ErrorType>>],
      [Input |-> <<ScanNamed(PathFoo, "Bar", FALSE), ScanBasic("string", FALSE)>>,
       Output |-> <<ScanBasic("string", FALSE)>>] }

RunFuncs ==
    {[Name |-> "DoFoo", Receiver |-> r, Input |-> sh.Input, Output |-> sh.Output] :
        r \in Receivers, sh \in RunShapes}

\* Names the caller has put in the nameSet before a function is transformed.
PreNames == {"DoFooRequest", "Fooer_DoFooResponse"}

\* The message of a struct of the package, transformed before its functions.
PointMessage == [Name |-> "Point", Fields |-> <<>>, Reserved |-> <<>>]

TransformFunc(p, fn) ==
    \E r \in {transformFunc(mappings, pkgs[p], fn, names)} :
    /\ pkgs' = [pkgs EXCEPT ![p] = r.pkg]
    /\ names' = r.names
    /\ calls' = calls + 1
    /\ warned' = r.warned
    /\ last' = [op |-> "transformFunc", pkg |-> p, fn |-> fn, result |-> r.rpc]
    /\ UNCHANGED <<mappings, imports>>

\* One function is transformed, into a package that holds nothing or one
\* struct message, with a nameSet the caller has filled.
InitFunc ==
    /\ mappings = NewTransformer
    /\ imports = <<>>
    /\ pkgs \in {[p \in PkgPaths |->
                    IF p = PathBaz THEN [NewPackage(p) EXCEPT !.Messages = msgs]
                    ELSE NewPackage(p)] : msgs \in {<<>>, <<PointMessage>>}}
    /\ names \in SUBSET PreNames
    /\ calls = 0
    /\ warned = <<>>
    /\ last = NoOp

NextFunc == calls = 0 /\ \E fn \in Funcs : TransformFunc(PathBaz, fn)

SpecFunc == InitFunc /\ [][NextFunc]_vars

\* The functions of a run are transformed one after another, into any of
\* its packages, with the one nameSet.
NextRun ==
    calls < MaxCalls /\ \E p \in PkgPaths, fn \in RunFuncs : TransformFunc(p, fn)

SpecRun == Init /\ [][NextRun]_vars

-----------------------------------------------------------------------------
(* Packages: Transform makes the output package of a scanned package. *)

\* pkg.Messages = append(pkg.Messages, msg), the imports and the warnings of
\* the struct included.
addMessage(st, r) ==
    [pkg |-> [st.pkg EXCEPT !.Imports = r.imports,
                            !.Messages = Append(@, r.msg)],
     warned |-> st.warned \o r.warned]

\* for _, s := range p.Structs
RECURSIVE structsLoop(_, _, _, _)
structsLoop(m, st, structs, i) ==
    IF i > Len(structs) THEN st
    ELSE structsLoop(m, addMessage(st, transformStruct(m, st.pkg.Imports, structs[i])),
                     structs, i + 1)

\* for _, e := range p.Enums
RECURSIVE enumsLoop(_, _, _)
enumsLoop(pkg, enums, i) ==
    IF i > Len(enums) THEN pkg
    ELSE enumsLoop([pkg EXCEPT !.Enums = Append(@, transformEnum(enums[i]))],
                   enums, i + 1)

\* The package Transform starts from.
EmptyPackage(path) ==
    [Name |-> Join(toProtobufPkg(path)), Path |-> path, Imports |-> <<>>,
     Messages |-> <<>>, Enums |-> <<>>, RPCs |-> <<>>]

\* The enums after the structs; the package is returned.
finishTransform(st, enums) ==
    [pkg |-> enumsLoop(st.pkg, enums, 1), warned |-> st.warned]

\* Transformer.Transform: the structs and the enums of the scanned package
\* are transformed, its functions are not looked at.
Transform(m, p) ==
    finishTransform(
        structsLoop(m, [pkg |-> EmptyPackage(p.Path), warned |-> <<>>],
                    p.Structs, 1),
        p.Enums)

\* The declarations scanned packages are made of.
PkgStructs ==
    { [Name |-> "Point", Fields |-> <<>>],
      [Name |-> "Foo",
       Fields |-> << [Name |-> <<"B", "a", "r">>,
                      Type |-> ScanNamed(PathFoo, "Bar", TRUE)],
                     [Name |-> <<"B", "a", "d">>,
                      Type |-> ScanBasic("complex64", FALSE)] >>] }

PkgEnums ==
    { [Name |-> "Kind", Values |-> << <<"F", "o", "o">>, <<"B", "a", "r">> >>],
      [Name |-> "Mode", Values |-> << <<"I", "D">> >>] }

PkgFuncs ==
    {[Name |-> "DoFoo", Receiver |-> r, Input |-> <<>>, Output |-> <<>>] :
        r \in Receivers}
    \cup {[Name |-> "DoFoo", Receiver |-> NoReceiver,
           Input |-> <<ScanNamed(PathFoo, "Bar", FALSE)>>,
           Output |-> <<ScanNamed(PathFoo, "Bar", FALSE), ErrorType>>]}

ScanPackages ==
    {[Path |-> path, Structs |-> ss, Enums |-> es, Funcs |-> fs] :
        path \in PkgPaths, ss \in SeqsUpTo(PkgStructs, MaxDecls),
        es \in SeqsUpTo(PkgEnums, MaxDecls), fs \in SeqsUpTo(PkgFuncs, MaxDecls)}

TransformPackage(p) ==
    \E r \in {Transform(mappings, p)} :
    /\ warned' = r.warned
    /\ calls' = calls + 1
    /\ last' = [op |-> "Transform", pkg |-> p, result |-> r.pkg]
    /\ UNCHANGED <<mappings, imports, pkgs, names>>

NextTransform == calls = 0 /\ \E p \in ScanPackages : TransformPackage(p)

SpecTransform == Init /\ [][NextTransform]_vars

-----------------------------------------------------------------------------
(* Properties of transformStruct, checked under SpecStruct. *)

\* The output fields of msg at position pos.
FieldsAt(msg, pos) == {k \in DOMAIN msg.Fields : msg.Fields[k].Pos = pos}

NoDuplicates(s) == \A i, j \in DOMAIN s : i # j => s[i] # s[j]

\* C1: after transformStruct on a struct of n fields, every position 1..n is
\* either the Pos of exactly one output field (the transformation of the
\* field declared there, under its lower-snake-case name) or reserved, never
\* both; the output fields are in declaration order with strictly increasing
\* Pos; nothing outside 1..n is used or reserved.
StructPositionsStable ==
    last.op = "transformStruct" =>
        LET fields == last.struct.Fields
            msg == last.result
            n == Len(fields)
        IN /\ \A i \in 1..n :
                \/ /\ Cardinality(FieldsAt(msg, i)) = 1
                   /\ i \notin Range(msg.Reserved)
                   /\ \A k \in FieldsAt(msg, i) :
                         msg.Fields[k].Name = toLowerSnakeCase(fields[i].Name)
                \/ /\ FieldsAt(msg, i) = {}
                   /\ i \in Range(msg.Reserved)
           /\ \A k \in DOMAIN msg.Fields : msg.Fields[k].Pos \in 1..n
           /\ \A k \in DOMAIN msg.Reserved : msg.Reserved[k] \in 1..n
           /\ \A k \in 1..(Len(msg.Fields) - 1) :
                 msg.Fields[k].Pos < msg.Fields[k + 1].Pos
           /\ NoDuplicates(msg.Reserved)
           /\ Len(msg.Fields) + Len(msg.Reserved) = n

\* A struct whose second field was dropped and whose third was kept: field
\* positions 1 and 3, position 2 reserved.
StructWithGapReached ==
    /\ last.op = "transformStruct"
    /\ Len(last.struct.Fields) = 3
    /\ Len(last.result.Fields) = 2
    /\ last.result.Fields[1].Pos = 1
    /\ last.result.Fields[2].Pos = 3
    /\ last.result.Reserved = <<2>>

\* The name a type is looked up under in the mapping tables.
LookupName(ty) == IF ty.kind = "Named" THEN NamedString(ty) ELSE ty.name

\* A warning of the last operation names the string name.
WarnedNaming(name) == \E k \in DOMAIN warned : name \in Range(warned[k].args)

\* C4, as claimed: every field of a Basic or Named type that neither table has
\* an entry for yields no output field, and a warning names the type.
UnmappedBasicOrNamedDropped ==
    last.op = "transformStruct" =>
        \A i \in DOMAIN last.struct.Fields :
            LET ty == last.struct.Fields[i].Type IN
            (ty.kind \in {"Basic", "Named"}
             /\ findMapping(mappings, LookupName(ty)) = NilPT)
            => /\ FieldsAt(last.result, i) = {}
               /\ WarnedNaming(LookupName(ty))

\* C4, amended: every field of a Basic type that neither table has an entry
\* for yields no output field, its position is reserved and a warning names
\* the type, while every field of a mapped Basic type is still output; a field
\* of a Named type that neither table has an entry for is not dropped: its
\* type is the Named type of the namespace derived from its path.
UnmappedBasicDropped ==
    last.op = "transformStruct" =>
        \A i \in DOMAIN last.struct.Fields :
            LET ty == last.struct.Fields[i].Type
                unmapped == findMapping(mappings, LookupName(ty)) = NilPT
            IN /\ (ty.kind = "Basic" /\ unmapped)
                  => /\ FieldsAt(last.result, i) = {}
                     /\ i \in Range(last.result.Reserved)
                     /\ WarnedNaming(ty.name)
               /\ (ty.kind = "Basic" /\ ~unmapped)
                  => Cardinality(FieldsAt(last.result, i)) = 1
               /\ (ty.kind = "Named" /\ unmapped)
                  => \E k \in FieldsAt(last.result, i) :
                        last.result.Fields[k].Type
                            = NewNamed(Join(toProtobufPkg(ty.path)), ty.name)

\* A struct whose first field, of an unmapped Basic type, was dropped with a
\* warning, and whose second field was output.
UnmappedBasicDroppedReached ==
    /\ last.op = "transformStruct"
    /\ Len(last.struct.Fields) >= 2
    /\ last.struct.Fields[1].Type = ScanBasic("complex64", FALSE)
    /\ findMapping(mappings, "complex64") = NilPT
    /\ 1 \in Range(last.result.Reserved)
    /\ WarnedNaming("complex64")
    /\ FieldsAt(last.result, 2) # {}

\* The mapping tables resolve type ty to no protobuf type.
Unresolved(ty) == transformType(mappings, <<>>, ty).type = NilType

\* C5, as claimed: a Map field whose key or value does not resolve yields no
\* output field, and its position is reserved.
MapWithUnresolvedPartReserved ==
    last.op = "transformStruct" =>
        \A i \in DOMAIN last.struct.Fields :
            LET ty == last.struct.Fields[i].Type IN
            (ty.kind = "Map" /\ (Unresolved(ty.key) \/ Unresolved(ty.value)))
            => /\ FieldsAt(last.result, i) = {}
               /\ i \in Range(last.result.Reserved)

-----------------------------------------------------------------------------
(* Properties of transformField, checked under SpecField. *)

\* C6: a repeated Basic "byte" field becomes the Basic type "bytes", not
\* repeated; a Basic "byte" that is not repeated goes through the mapping
\* table (uint32), and a Named type, repeated and called "byte" or not, keeps
\* its repeated flag and never becomes "bytes".
ByteSliceBecomesBytes ==
    last.op = "transformField" =>
        LET ty == last.field.Type
            f == last.result
        IN /\ (ty.kind = "Basic" /\ ty.name = "byte" /\ ty.repeated)
              => /\ f # NilRef
                 /\ f.Type = NewBasic("bytes")
                 /\ f.Repeated = FALSE
           /\ (ty.kind = "Basic" /\ ty.name = "byte" /\ ~ty.repeated)
              => /\ f # NilRef
                 /\ f.Type = NewBasic("uint32")
                 /\ f.Repeated = FALSE
           /\ ty.kind = "Named"
              => /\ f # NilRef
                 /\ f.Type # NewBasic("bytes")
                 /\ f.Repeated = ty.repeated

ByteSliceReached ==
    /\ last.op = "transformField"
    /\ last.field.Type = ScanBasic("byte", TRUE)
    /\ last.result # NilRef
    /\ last.result.Type = NewBasic("bytes")
    /\ ~last.result.Repeated

-----------------------------------------------------------------------------
(* Properties of transformType, checked under SpecType. *)

\* The import paths the transformation of ty asks for, in the order it asks.
RECURSIVE RequiredImports(_, _)
RequiredImports(m, ty) ==
    CASE ty.kind = "Map" -> RequiredImports(m, ty.key) \o RequiredImports(m, ty.value)
      [] ty.kind = "Named" /\ findMapping(m, LookupName(ty)) = NilPT ->
            <<GeneratedProto(ty.path)>>
      [] findMapping(m, LookupName(ty)) = NilPT -> <<>>
      [] findMapping(m, LookupName(ty)).Import = "" -> <<>>
      [] OTHER -> <<findMapping(m, LookupName(ty)).Import>>

\* imps followed by the paths of req it does not hold yet, each once.
RECURSIVE FirstUse(_, _)
FirstUse(imps, req) ==
    IF req = <<>> THEN imps
    ELSE FirstUse(IF Head(req) \in Range(imps) THEN imps ELSE Append(imps, Head(req)),
                  Tail(req))

ImportsInFirstUseOrder ==
    last'.op = "transformType" =>
        /\ imports' = FirstUse(imports, RequiredImports(mappings, last'.typ))
        /\ NoDuplicates(imports')
        /\ \A k \in DOMAIN RequiredImports(mappings, last'.typ) :
              RequiredImports(mappings, last'.typ)[k] \in Range(imports')

\* C7: every transformType step leaves the package's import list without
\* duplicates and extends it by exactly the import paths the type required
\* that were not there yet, in the order of their first use.
ImportsOnceInFirstUseOrder == [][ImportsInFirstUseOrder]_vars

\* Two imports are registered and the last transformType used the first of
\* them again: the type was re-used and no duplicate was added.
ImportReusedReached ==
    /\ last.op = "transformType"
    /\ last.typ = ScanNamed(PathTime, "Time", FALSE)
    /\ Len(imports) = 2
    /\ imports[1] = "google/protobuf/timestamp.proto"
    /\ imports[2] = "foo/generated.proto"

-----------------------------------------------------------------------------
(* Properties of transformEnum, checked under SpecEnum. *)

\* C2: transformEnum yields one value per declared value, in declared order:
\* value i has ordinal i, counted from zero, and the upper-snake-case name of
\* declared value i.
EnumOrdinalsFollowDeclaration ==
    last.op = "transformEnum" =>
        /\ last.result.Name = last.enum.Name
        /\ Len(last.result.Values) = Len(last.enum.Values)
        /\ \A i \in DOMAIN last.enum.Values :
              /\ last.result.Values[i].Value = i - 1
              /\ last.result.Values[i].Name = toUpperSnakeCase(last.enum.Values[i])

\* The enum of the values Foo, Bar, BarBaz, which are not in alphabetical
\* order, became FOO = 0, BAR = 1, BAR_BAZ = 2.
EnumFooBarReached ==
    /\ last.op = "transformEnum"
    /\ last.enum.Values = << <<"F", "o", "o">>, <<"B", "a", "r">>,
                             <<"B", "a", "r", "B", "a", "z">> >>
    /\ last.result.Values =
          << [Name |-> <<"F", "O", "O">>, Value |-> 0],
             [Name |-> <<"B", "A", "R">>, Value |-> 1],
             [Name |-> <<"B", "A", "R", "_", "B", "A", "Z">>, Value |-> 2] >>

-----------------------------------------------------------------------------
(* Properties of findMapping, checked under SpecMap. *)

\* C3: findMapping returns the override table's entry for the name when it
\* has one, whether or not the default table has one too; otherwise the
\* default table's entry; and nil when neither table has one.
OverrideWinsOverDefault ==
    last.op = "findMapping" =>
        LET custom == Lookup(mappings, last.name)
            builtin == DefaultMappings(last.name)
        IN /\ custom # NilPT => last.result = custom
           /\ (custom = NilPT /\ builtin # NilPT) => last.result = builtin
           /\ (custom = NilPT /\ builtin = NilPT) => last.result = NilPT

\* "time.Time" is in both tables and the override's entry was returned.
OverrideOfDefaultReached ==
    /\ last.op = "findMapping"
    /\ last.name = "time.Time"
    /\ Lookup(mappings, "time.Time") # NilPT
    /\ DefaultMappings("time.Time") # NilPT
    /\ last.result = OverrideEntry("time.Time")
    /\ last.result # DefaultMappings("time.Time")

-----------------------------------------------------------------------------
(* Properties of transformFunc, checked under SpecFunc and SpecRun. *)

\* The wrapper names the RPC of a step refers to: a side whose type is the
\* generated type of its wrapper name had its wrapper synthesized.
Synthesized(p, fn, rpc) ==
    {n \in {RequestName(fn)} :
        rpc.Input = NewGeneratedNamed(pkgs[p].Name, n)}
    \cup {n \in {ResponseName(fn)} :
        rpc.Output = NewGeneratedNamed(pkgs[p].Name, n)}

\* The step returned no RPC and left the package's messages and RPCs and
\* the nameSet as they were.
NothingCommitted ==
    /\ last'.result = NilRef
    /\ pkgs'[last'.pkg].Messages = pkgs[last'.pkg].Messages
    /\ pkgs'[last'.pkg].RPCs = pkgs[last'.pkg].RPCs
    /\ names' = names

\* The step returned an RPC, appended it to the package's RPCs, appended
\* one message for each wrapper it synthesized and registered their names.
AllCommitted ==
    LET p == last'.pkg
        before == pkgs[p].Messages
        after == pkgs'[p].Messages
        synth == Synthesized(p, last'.fn, last'.result)
    IN /\ last'.result # NilRef
       /\ pkgs'[p].RPCs = Append(pkgs[p].RPCs, last'.result)
       /\ Len(after) = Len(before) + Cardinality(synth)
       /\ SubSeq(after, 1, Len(before)) = before
       /\ {after[i].Name : i \in (Len(before) + 1)..Len(after)} = synth
       /\ names' = names \cup synth

CollisionDecidesCommit ==
    last'.op = "transformFunc" =>
        IF \/ (RPCName(last'.fn) \o "Request") \in names
           \/ (RPCName(last'.fn) \o "Response") \in names
        THEN NothingCommitted ELSE AllCommitted

CollisionOrReceiverDecidesCommit ==
    last'.op = "transformFunc" =>
        IF \/ (RPCName(last'.fn) \o "Request") \in names
           \/ (RPCName(last'.fn) \o "Response") \in names
           \/ last'.fn.Receiver.kind \notin {"none", "Named"}
        THEN NothingCommitted ELSE AllCommitted

\* C8, as stated: when "<Name>Request" or "<Name>Response" is in the nameSet
\* as a function is transformed, no RPC is returned, no message is appended
\* and the nameSet is unchanged; otherwise the wrappers synthesized and the
\* RPC are all committed.
FuncIsTransactional == [][CollisionDecidesCommit]_vars

\* C8, amended: when "<Name>Request" or "<Name>Response" is in the nameSet
\* as a function is transformed, or the function's receiver cannot be named,
\* no RPC is returned, no message is appended and the nameSet is unchanged;
\* otherwise the wrappers synthesized and the RPC are all committed.
NameableFuncIsTransactional == [][CollisionOrReceiverDecidesCommit]_vars

\* A method of Fooer was skipped for its response name alone: its request
\* name was free, and the package holds what it held before.
ResponseCollisionSkipped ==
    /\ last.op = "transformFunc"
    /\ last.fn.Receiver.kind = "Named"
    /\ last.fn.Input # <<>>
    /\ ResponseName(last.fn) \in names
    /\ RequestName(last.fn) \notin names
    /\ last.result = NilRef
    /\ pkgs[PathBaz].Messages = <<PointMessage>>
    /\ pkgs[PathBaz].RPCs = <<>>

\* The messages of all the packages of the run, as <<package, index>>.
AllMessages ==
    {<<p, i>> : p \in PkgPaths, i \in 1..MaxCalls * 2} \cap
    UNION {{<<p, i>> : i \in DOMAIN pkgs[p].Messages} : p \in PkgPaths}

WrapperNamesDistinct ==
    \A x, y \in AllMessages :
        x # y => pkgs[x[1]].Messages[x[2]].Name # pkgs[y[1]].Messages[y[2]].Name

CollidingFuncContributesNothing ==
    (/\ last'.op = "transformFunc"
     /\ \/ (RPCName(last'.fn) \o "Request") \in names
        \/ (RPCName(last'.fn) \o "Response") \in names)
    => /\ last'.result = NilRef
       /\ pkgs' = pkgs

\* C9: after any sequence of function transformations with one nameSet, into
\* any of the packages of the run, the names of the wrapper messages are
\* pairwise distinct, and a function that would generate a wrapper name
\* registered already adds no RPC and no message to any package.
WrapperNamesUniqueAcrossRun ==
    []WrapperNamesDistinct /\ [][CollidingFuncContributesNothing]_vars

\* DoFoo of package baz was transformed with wrappers, and then DoFoo of
\* package qux was skipped for their names.
SecondPackageFuncSkipped ==
    /\ calls = 2
    /\ last.op = "transformFunc"
    /\ last.pkg = PathQux
    /\ last.fn.Receiver = NoReceiver
    /\ last.result = NilRef
    /\ {"DoFooRequest", "DoFooResponse"} \subseteq names
    /\ Len(pkgs[PathBaz].Messages) = 2
    /\ Len(pkgs[PathBaz].RPCs) = 1
    /\ pkgs[PathQux].Messages = <<>>
    /\ pkgs[PathQux].RPCs = <<>>

\* The declared results of a function that become fields: all of them but
\* a last one of the type error.
DeclaredResults(fn) ==
    IF Len(fn.Output) > 0 /\ fn.Output[Len(fn.Output)] = ErrorType
    THEN [i \in 1..(Len(fn.Output) - 1) |-> fn.Output[i]]
    ELSE fn.Output

\* The message has n fields, named prefix1, prefix2, ... in this order.
OneFieldPerValue(msg, prefix, n) ==
    /\ Len(msg.Fields) = n
    /\ \A k \in 1..n : msg.Fields[k].Name = Append(prefix, DigitChars[k])

\* The message has one field for each of the types that maps, named prefix
\* followed by the 1-based index of the type, in the order of the types.
OneFieldPerMappedValue(msg, prefix, types) ==
    LET mapped == {k \in DOMAIN types :
                      transformType(mappings, <<>>, types[k]).type # NilType}
    IN /\ Len(msg.Fields) = Cardinality(mapped)
       /\ \A j \in DOMAIN msg.Fields :
             /\ msg.Fields[j].Pos \in mapped
             /\ msg.Fields[j].Name = Append(prefix, DigitChars[msg.Fields[j].Pos])
       /\ \A i, j \in DOMAIN msg.Fields :
             i < j => msg.Fields[i].Pos < msg.Fields[j].Pos

\* The wrapper of the name, when the RPC of the last step refers to it.
WrapperOf(name) ==
    {i \in DOMAIN pkgs[last.pkg].Messages :
        /\ name \in Synthesized(last.pkg, last.fn, last.result)
        /\ pkgs[last.pkg].Messages[i].Name = name}

\* C10, as stated: a synthesized request wrapper has one field per input,
\* named "arg1", "arg2", ... in declaration order, and a synthesized
\* response wrapper one field per output, named "result1", "result2", ...,
\* a trailing output of the type error being no field and not counted.
WrapperHasFieldPerValue ==
    (last.op = "transformFunc" /\ last.result # NilRef) =>
        /\ \A n \in Synthesized(last.pkg, last.fn, last.result) :
              WrapperOf(n) # {}
        /\ \A i \in WrapperOf(RequestName(last.fn)) :
              OneFieldPerValue(pkgs[last.pkg].Messages[i], ArgPrefix,
                               Len(last.fn.Input))
        /\ \A i \in WrapperOf(ResponseName(last.fn)) :
              OneFieldPerValue(pkgs[last.pkg].Messages[i], ResultPrefix,
                               Len(DeclaredResults(last.fn)))

\* C10, amended: a synthesized request wrapper has one field per input whose
\* type maps, named "arg<i>" for the input's 1-based index i, in declaration
\* order, and a synthesized response wrapper one field per output whose type
\* maps, named "result<i>", a trailing output of the type error being no
\* field and not counted; an input or output whose type does not map is no
\* field.
WrapperHasFieldPerMappedValue ==
    (last.op = "transformFunc" /\ last.result # NilRef) =>
        /\ \A n \in Synthesized(last.pkg, last.fn, last.result) :
              WrapperOf(n) # {}
        /\ \A i \in WrapperOf(RequestName(last.fn)) :
              OneFieldPerMappedValue(pkgs[last.pkg].Messages[i], ArgPrefix,
                                     last.fn.Input)
        /\ \A i \in WrapperOf(ResponseName(last.fn)) :
              OneFieldPerMappedValue(pkgs[last.pkg].Messages[i], ResultPrefix,
                                     DeclaredResults(last.fn))

\* A function of two arguments and of two results and an error got the
\* wrappers of arg1, arg2 and of result1, result2.
TwoArgsTwoResultsAndErrorReached ==
    /\ last.op = "transformFunc"
    /\ last.result # NilRef
    /\ Len(last.fn.Input) = 2
    /\ Len(last.fn.Output) = 3
    /\ last.fn.Output[3] = ErrorType
    /\ \E i, j \in DOMAIN pkgs[last.pkg].Messages :
          /\ pkgs[last.pkg].Messages[i].Name = RequestName(last.fn)
          /\ pkgs[last.pkg].Messages[j].Name = ResponseName(last.fn)
          /\ [k \in 1..2 |-> pkgs[last.pkg].Messages[i].Fields[k].Name]
                = <<Append(ArgPrefix, "1"), Append(ArgPrefix, "2")>>
          /\ [k \in 1..2 |-> pkgs[last.pkg].Messages[j].Fields[k].Name]
                = <<Append(ResultPrefix, "1"), Append(ResultPrefix, "2")>>
          /\ Len(pkgs[last.pkg].Messages[i].Fields) = 2
          /\ Len(pkgs[last.pkg].Messages[j].Fields) = 2

\* The type of one side of the RPC of types: the named type itself for one
\* Named type that is not repeated, the generated type of the wrapper name
\* for every other list.
SideType(p, types, wrapperName) ==
    IF Len(types) = 1 /\ types[1].kind = "Named" /\ ~types[1].repeated
    THEN transformType(mappings, <<>>, types[1]).type
    ELSE NewGeneratedNamed(Join(toProtobufPkg(p)), wrapperName)

\* Neither side of the function is wrapped.
BothSidesNamed(fn) ==
    /\ Len(fn.Input) = 1 /\ fn.Input[1].kind = "Named" /\ ~fn.Input[1].repeated
    /\ Len(DeclaredResults(fn)) = 1
    /\ DeclaredResults(fn)[1].kind = "Named"
    /\ ~DeclaredResults(fn)[1].repeated

\* C11: the RPC of a function takes a lone, non-repeated Named input, and a
\* lone, non-repeated Named output once a trailing error is set aside, as
\* its input and output type directly, and with both no wrapper message is
\* synthesized; a side of any other shape (no value, two or more, one Basic
\* or one repeated value) has the generated type of its wrapper.
SingleNamedUsedDirectly ==
    (last.op = "transformFunc" /\ last.result # NilRef) =>
        /\ last.result.Input =
              SideType(last.pkg, last.fn.Input, RequestName(last.fn))
        /\ last.result.Output =
              SideType(last.pkg, DeclaredResults(last.fn), ResponseName(last.fn))
        /\ BothSidesNamed(last.fn) =>
              /\ ~last.result.Input.generated
              /\ ~last.result.Output.generated
              /\ \A i \in DOMAIN pkgs[last.pkg].Messages :
                    pkgs[last.pkg].Messages[i] = PointMessage
              /\ names \subseteq PreNames

\* DoFoo(foo.Bar) (foo.Bar, error) became an RPC from Bar to Bar, and the
\* package holds the one message it held before.
SingleNamedBothSidesReached ==
    /\ last.op = "transformFunc"
    /\ last.fn.Input = <<ScanNamed(PathFoo, "Bar", FALSE)>>
    /\ last.fn.Output = <<ScanNamed(PathFoo, "Bar", FALSE), ErrorType>>
    /\ last.result # NilRef
    /\ last.result.Input = NewNamed("foo", "Bar")
    /\ last.result.Output = NewNamed("foo", "Bar")
    /\ pkgs[PathBaz].Messages = <<PointMessage>>
    /\ names = {}

-----------------------------------------------------------------------------
(* Properties of Transform, checked under SpecTransform. *)

\* The functions of a package transformed one after another with one nameSet:
\* the package and the nameSet after the last of them.
RECURSIVE funcsLoop(_, _, _, _)
funcsLoop(m, st, fns, i) ==
    IF i > Len(fns) THEN st
    ELSE funcsLoop(m, transformFunc(m, st.pkg, fns[i], st.names), fns, i + 1)

\* The RPCs and the wrapper messages the functions of the package stand for.
ExpectedOfFuncs(p) ==
    funcsLoop(mappings, [pkg |-> NewPackage(p.Path), names |-> {}], p.Funcs, 1).pkg

NamesOf(s) == [i \in DOMAIN s |-> s[i].Name]

\* C12: the package Transform returns has one RPC for every function of the
\* scanned package that the receiver rule and the collision rule do not skip,
\* in declaration order, and the wrapper messages of these functions, besides
\* one message per struct and one enum per enumeration, in declaration order.
TransformCoversFuncsStructsEnums ==
    last.op = "Transform" =>
        /\ NamesOf(last.result.RPCs) = NamesOf(ExpectedOfFuncs(last.pkg).RPCs)
        /\ Range(NamesOf(ExpectedOfFuncs(last.pkg).Messages))
              \subseteq Range(NamesOf(last.result.Messages))
        /\ Len(last.result.Messages) >= Len(last.pkg.Structs)
        /\ \A i \in DOMAIN last.pkg.Structs :
              last.result.Messages[i].Name = last.pkg.Structs[i].Name
        /\ NamesOf(last.result.Enums) = NamesOf(last.pkg.Enums)

-----------------------------------------------------------------------------
(* Properties of the mapping entries a field resolves to, checked under      *)
(* SpecField and SpecInt.                                                    *)

\* The option bag of a field: without entries when the field was built
\* without one.
OptionsOf(f) == IF "Options" \in DOMAIN f THEN f.Options ELSE EmptyOptions

\* The mapping entry the type of the last field resolved to; NilPT when it
\* resolved to none (a byte slice, a Map, a type without an entry).
ResolvedEntry ==
    IF last.field.Type.kind \in {"Basic", "Named"} /\ ~isByteSlice(last.field.Type)
    THEN findMapping(mappings, LookupName(last.field.Type))
    ELSE NilPT

\* C13: a field whose type resolves to a mapping entry with decorators is
\* returned with the options these decorators set, every decorator having
\* run on it in registration order.
DecoratorsRunOnField ==
    (/\ last.op = "transformField"
     /\ last.result # NilRef
     /\ ResolvedEntry # NilPT
     /\ ResolvedEntry.Decorators # <<>>)
    => OptionsOf(last.result) = DecoratorsRun(ResolvedEntry.Decorators, EmptyOptions)

\* The Go integer types of 8 and 16 bits and byte, signed or not.
NarrowSigned == {"int8", "int16"}

NarrowUnsigned == {"uint8", "uint16", "byte"}

\* The warning of the mapping entry of the name: its Warn format with the
\* Go type as the argument.
UpgradeWarning(name) ==
    [fmt |-> DefaultMappings(name).Warn, args |-> <<name>>]

\* C14: with the default table, a field of an 8-bit or 16-bit integer type
\* or of byte gets the 32-bit integer type of the same signedness, and the
\* upgrade warning of the mapping is sent exactly once for it.
NarrowIntUpgradedWithOneWarning ==
    (/\ last.op = "transformField"
     /\ last.field.Type.kind = "Basic"
     /\ last.field.Type.name \in NarrowSigned \cup NarrowUnsigned
     /\ ~isByteSlice(last.field.Type)
     /\ Lookup(mappings, last.field.Type.name) = NilPT)
    => /\ last.result # NilRef
       /\ last.result.Type =
             NewBasic(IF last.field.Type.name \in NarrowSigned
                      THEN "int32" ELSE "uint32")
       /\ Cardinality({i \in DOMAIN warned :
                          warned[i] = UpgradeWarning(last.field.Type.name)}) = 1

-----------------------------------------------------------------------------
(* Properties of the naming transforms, checked under SpecSnake and SpecPkg. *)

\* s with "_" written before every uppercase letter that is not the first
\* character and does not follow an uppercase letter.
UnderscoresInserted(s) ==
    LET piece(i) ==
            IF IsUpper(s[i]) /\ i > 1 /\ ~IsUpper(s[IF i > 1 THEN i - 1 ELSE 1])
            THEN <<"_", s[i]>> ELSE <<s[i]>>
        pieces[i \in 0..Len(s)] ==
            IF i = 0 THEN <<>> ELSE pieces[i - 1] \o piece(i)
    IN pieces[Len(s)]

Lowercased(s) == [i \in DOMAIN s |-> ToLower(s[i])]

\* C15: toLowerSnakeCase(s) is s with "_" inserted before every uppercase
\* letter that is not the first character and is not preceded by an
\* uppercase letter, every character then lowercased, for every s of
\* lowercase letters, uppercase letters and digits.
SnakeCaseIsInsertThenLower ==
    last.op = "toLowerSnakeCase" =>
        last.result = Lowercased(UnderscoresInserted(last.s))

\* "fooBAR" gave "foo_bar".
FooBARReached ==
    /\ last.op = "toLowerSnakeCase"
    /\ last.s = <<"f", "o", "o", "B", "A", "R">>
    /\ last.result = <<"f", "o", "o", "_", "b", "a", "r">>

\* C16: the namespace of a package path is a fixed point of the derivation:
\* toProtobufPkg(toProtobufPkg(p)) = toProtobufPkg(p) for every path p of
\* '/', '.', plain and accented letters, digits and other symbols.
ToProtobufPkgIdempotent ==
    last.op = "toProtobufPkg" => toProtobufPkg(last.result) = last.result

\* A path with an accented letter, a separator and a symbol, which the
\* derivation changed.
AccentedPathReached ==
    /\ last.op = "toProtobufPkg"
    /\ last.path = <<"o'", "/", "-", "1">>
    /\ last.result = <<"o", ".", "1">>
    /\ last.result # last.path

-----------------------------------------------------------------------------
(* Properties of SetMappings, checked under SpecMap. *)

\* A SetMappings step leaves the table passed in place of the override
\* table, or the override table as it was when nil was passed; no other step
\* changes the override table.
TableFollowsLastNonNil ==
    IF last'.op = "SetMappings"
    THEN mappings' = (IF last'.arg.isNil THEN mappings ELSE last'.arg)
    ELSE mappings' = mappings

\* The override table's entry for the name looked up, when it has one, is
\* what findMapping returned.
OverrideEntriesWin ==
    (last.op = "findMapping" /\ Lookup(mappings, last.name) # NilPT)
        => last.result = Lookup(mappings, last.name)

\* C17: the override table of a transformer made by NewTransformer is the
\* empty table at first, is never nil, and after every SetMappings call is
\* the most recent table passed that was not nil: SetMappings(nil) leaves it
\* as it was, and its entries go on winning in findMapping.
OverrideTableIsLastNonNil ==
    /\ mappings = EmptyMappings
    /\ [](~mappings.isNil)
    /\ [][TableFollowsLastNonNil]_vars
    /\ []OverrideEntriesWin

\* SetMappings(nil) was called on a transformer whose override table has the
\* entry of "time.Time", and the table has it still.
NilAfterOverrideReached ==
    /\ last.op = "SetMappings"
    /\ last.arg = NilMappings
    /\ ~mappings.isNil
    /\ "time.Time" \in DOMAIN mappings.entries
    /\ findMapping(mappings, "time.Time") = OverrideEntry("time.Time")

-----------------------------------------------------------------------------
(* Properties of the fields transformField returns, checked under SpecField. *)

\* C18: a field that is returned and is not the byte slice keeps the
\* repeated flag of its source type and has the lower snake case form of the
\* source field's name; the flag is on the field, and its type carries none.
FieldKeepsRepeatedAndSnakeName ==
    (/\ last.op = "transformField"
     /\ last.result # NilRef
     /\ ~(/\ last.field.Type.kind = "Basic"
          /\ last.field.Type.name = "byte"
          /\ last.field.Type.repeated))
    => /\ last.result.Repeated = last.field.Type.repeated
       /\ last.result.Name = Lowercased(UnderscoresInserted(last.field.Name))
       /\ "repeated" \notin DOMAIN last.result.Type

\* The field BazBar of the type []foo.Bar became the repeated field baz_bar
\* of the type foo.Bar.
RepeatedNamedFieldReached ==
    /\ last.op = "transformField"
    /\ last.field = [Name |-> <<"B", "a", "z", "B", "a", "r">>,
                     Type |-> ScanNamed(PathFoo, "Bar", TRUE)]
    /\ last.result # NilRef
    /\ last.result.Name = <<"b", "a", "z", "_", "b", "a", "r">>
    /\ last.result.Repeated
    /\ last.result.Type = NewNamed("foo", "Bar")

=============================================================================
